---- MODULE Spec2Model ----
(***************************************************************************)
(* Model of find_best_travel_plan (src/main.py): the pre-filter, the       *)
(* adjacency index, the seeding of the priority queue, the best-first      *)
(* search loop with its pruning threshold, and the bounded plan pool.      *)
(*                                                                         *)
(* Time is counted in whole hours from 00:00 of the first day of the date  *)
(* window; a duration is a number of hours.  A flight is referred to by    *)
(* its index in the table Flights, as the code's nodes refer to shared     *)
(* Flight objects.                                                         *)
(***************************************************************************)
EXTENDS Integers, Sequences, FiniteSets, TLC

\* ------------------------------------------------------------------ bounds
\* Largest number of flights in a flight universe.
MaxFlights == 3
\* Largest num_countries.
MaxCountries == 2
\* Largest top_n.
MaxTopN == 2

\* ------------------------------------------------------- program constants
\* "no value": start_city / end_city / limits left unset.
NoCity == "None"
\* pruning_threshold = None, max_transfers = None, no_fly hours = None ...
None == -1
\* Defaults of min_layover_hours and max_layover_hours.
DefaultMinLayover == 10
DefaultMaxLayover == 48

\* ------------------------------------------------------- reference data
\* The part of models.CITIES the model uses: code -> country.  DLA and NSI
\* lie in the same country.  Any other code is unknown to get_city_by_code.
CITIES_BY_CODE ==
  [c \in {"CAI", "ALG", "TUN", "DLA", "NSI", "CMN"} |->
     CASE c = "CAI" -> "Egypt"
       [] c = "ALG" -> "Algeria"
       [] c = "TUN" -> "Tunisia"
       [] c = "DLA" -> "Cameroon"
       [] c = "NSI" -> "Cameroon"
       [] c = "CMN" -> "Morocco"]

\* A code outside models.CITIES.
UnknownCode == "XXX"

\* get_city_by_code(code).country, or NoCity when the lookup returns None.
get_city_by_code(code) ==
  IF code \in DOMAIN CITIES_BY_CODE THEN CITIES_BY_CODE[code] ELSE NoCity

\* A Flight of the expanded schedule.  arrival_datetime = departure_datetime
\* + duration, as load_flights and expand_flights_for_date_range compute it.
Flight(dep, arr, t, d, cls, tr) ==
  [departure_city_code |-> dep, arrival_city_code |-> arr,
   departure_datetime |-> t, duration |-> d, arrival_datetime |-> t + d,
   flight_class |-> cls, transfers |-> tr]

\* The flights the universes are drawn from.
BaseTable ==
  << Flight("CAI", "ALG",  8, 2, <<"Economy">>, 0),              \* 1
     Flight("ALG", "TUN", 22, 3, <<"Economy">>, 0),              \* 2
     Flight("TUN", "CAI", 40, 2, <<"Economy">>, 0),              \* 3
     Flight("CAI", "DLA",  6, 2, <<"Economy">>, 1),              \* 4
     Flight("CAI", "NSI",  7, 2, <<"Business">>, 0),             \* 5
     Flight("NSI", "TUN", 57, 1, <<"Premium", "Economy">>, 0),   \* 6
     Flight("ALG", "TUN", 20, 1, <<"Economy">>, 2),              \* 7
     Flight("CAI", "TUN",  5, 0, <<"Economy">>, 0),              \* 8
     Flight("ALG", UnknownCode, 21, 1, <<"Economy">>, 0) >>      \* 9

\* The flights that only the forced-city scenarios use.
ScenarioTable ==
  << Flight("DLA", "NSI", 30, 1, <<"Economy">>, 0),              \* 10
     Flight("TUN", "DLA", 40, 2, <<"Economy">>, 0),              \* 11
     Flight("DLA", "CMN", 55, 1, <<"Economy">>, 0),              \* 12
     Flight("DLA", "TUN", 60, 2, <<"Economy">>, 0) >>            \* 13

Flights == BaseTable \o ScenarioTable

FlightIds == 1..Len(BaseTable)

\* ------------------------------------------------------- small helpers
RECURSIVE SeqSum(_)
SeqSum(s) == IF s = <<>> THEN 0 ELSE Head(s) + SeqSum(Tail(s))

Range(s) == {s[i] : i \in 1..Len(s)}

Last(s) == s[Len(s)]

\* The increasing sequence of the members of a set of numbers.
RECURSIVE SetToSeq(_)
SetToSeq(S) ==
  IF S = {} THEN <<>>
  ELSE LET m == CHOOSE x \in S : \A y \in S : x <= y
       IN <<m>> \o SetToSeq(S \ {m})

\* Python's `needle in haystack` on strings, a class name being a sequence
\* of words: needle occurs as a contiguous part of haystack.
IsSubstring(needle, haystack) ==
  \E i \in 0..(Len(haystack) - Len(needle)) :
     \A j \in 1..Len(needle) : haystack[i + j] = needle[j]

\* Mutant of SortByDuration: plans of equal duration come out in the reverse
\* of their order in the pool.
RECURSIVE SortByDurationTiesReversed(_)
SortByDurationTiesReversed(s) ==
  IF s = <<>> THEN <<>>
  ELSE LET rest == SortByDurationTiesReversed(Tail(s))
           x == Head(s)
           k == Cardinality({i \in 1..Len(rest) :
                               rest[i].total_duration <= x.total_duration})
       IN SubSeq(rest, 1, k) \o <<x>> \o SubSeq(rest, k + 1, Len(rest))

\* sorted(plans, key=lambda p: p.total_duration): a stable sort (by insertion:
\* the head, being earlier than the rest, goes before every plan of the sorted
\* rest whose key is not strictly smaller).
RECURSIVE SortByDuration(_)
SortByDuration(s) ==
  IF s = <<>> THEN <<>>
  ELSE LET rest == SortByDuration(Tail(s))
           x == Head(s)
           k == Cardinality({i \in 1..Len(rest) :
                               rest[i].total_duration < x.total_duration})
       IN SubSeq(rest, 1, k) \o <<x>> \o SubSeq(rest, k + 1, Len(rest))

\* ------------------------------------------------------------------ state
VARIABLES
  cfg,                  \* the arguments of find_best_travel_plan
  pc,                   \* "start" | "check" | "body" | "done" | "error"
  flights_by_departure, \* city code -> sequence of flight ids
  priority_queue,       \* the nodes on the heap
  found_plans,          \* the dict signature -> plan, in insertion order
  counter,              \* the insertion sequence number
  pruning_threshold,    \* None, or the worst duration of a full pool
  paths_explored,       \* number of nodes popped
  stop_event,           \* the flag another thread sets
  result                \* the returned list

vars == <<cfg, pc, flights_by_departure, priority_queue, found_plans, counter,
          pruning_threshold, paths_explored, stop_event, result>>

\* Every city code the model uses, in the order of cities_choice.
AllCodes == <<"CAI", "ALG", "TUN", "DLA", "NSI", "CMN", UnknownCode>>

\* ------------------------------------------------------------- pre-filter
\* Mutant of InNoFlyBand: the end hour of a band that does not wrap is excluded too.
InNoFlyBandEndIncluded(f) ==
  /\ cfg.no_fly_start_hour # None
  /\ cfg.no_fly_end_hour # None
  /\ LET dep_hour == f.departure_datetime % 24
         is_overnight == cfg.no_fly_start_hour > cfg.no_fly_end_hour
     IN \/ is_overnight /\ (dep_hour >= cfg.no_fly_start_hour \/ dep_hour < cfg.no_fly_end_hour)
        \/ ~is_overnight /\ cfg.no_fly_start_hour <= dep_hour /\ dep_hour <= cfg.no_fly_end_hour

\* The no-fly test of one flight (lines 49-54): TRUE when it is excluded.
InNoFlyBand(f) ==
  /\ cfg.no_fly_start_hour # None
  /\ cfg.no_fly_end_hour # None
  /\ LET dep_hour == f.departure_datetime % 24
         is_overnight == cfg.no_fly_start_hour > cfg.no_fly_end_hour
     IN \/ is_overnight /\ (dep_hour >= cfg.no_fly_start_hour \/ dep_hour < cfg.no_fly_end_hour)
        \/ ~is_overnight /\ cfg.no_fly_start_hour <= dep_hour /\ dep_hour < cfg.no_fly_end_hour

\* Mutant of Rejected: a flight as long as max_flight_duration_hours is skipped.
RejectedAtDurationBound(f) ==
  \/ cfg.flight_class_filter # <<"ALL">> /\ ~IsSubstring(cfg.flight_class_filter, f.flight_class)
  \/ cfg.max_transfers # None /\ f.transfers > cfg.max_transfers
  \/ f.departure_city_code \notin Range(cfg.cities_choice)
  \/ f.arrival_city_code \notin Range(cfg.cities_choice)
  \/ cfg.max_flight_duration_hours # None /\ f.duration >= cfg.max_flight_duration_hours

\* The static test of one flight (lines 44-48): TRUE when it is skipped.
Rejected(f) ==
  \/ cfg.flight_class_filter # <<"ALL">> /\ ~IsSubstring(cfg.flight_class_filter, f.flight_class)
  \/ cfg.max_transfers # None /\ f.transfers > cfg.max_transfers
  \/ f.departure_city_code \notin Range(cfg.cities_choice)
  \/ f.arrival_city_code \notin Range(cfg.cities_choice)
  \/ cfg.max_flight_duration_hours # None /\ f.duration > cfg.max_flight_duration_hours

\* pre_filtered_flights after the loop of lines 42-55.
PreFilter(search_flights) ==
  SelectSeq(search_flights, LAMBDA id : ~Rejected(Flights[id]) /\ ~InNoFlyBand(Flights[id]))

TouchesForced(id) ==
  \/ Flights[id].departure_city_code \in cfg.forced_cities
  \/ Flights[id].arrival_city_code \in cfg.forced_cities

\* Mutant of ForcedReorder: only the flights touching a forced city are kept.
ForcedReorderForcedOnly(pre_filtered_flights) ==
  IF cfg.forced_cities # {}
  THEN SelectSeq(pre_filtered_flights, TouchesForced)
  ELSE pre_filtered_flights

\* Lines 60-71: flights touching a forced city first.
ForcedReorder(pre_filtered_flights) ==
  IF cfg.forced_cities # {}
  THEN SelectSeq(pre_filtered_flights, TouchesForced)
       \o SelectSeq(pre_filtered_flights, LAMBDA id : ~TouchesForced(id))
  ELSE pre_filtered_flights

\* Mutant of BuildIndex: a flight is filed under its arrival city.
BuildIndexByArrival(pre_filtered_flights) ==
  [c \in Range(AllCodes) |->
     SelectSeq(pre_filtered_flights, LAMBDA id : Flights[id].arrival_city_code = c)]

\* Lines 73-75: the adjacency index, each list in the order of the input.
BuildIndex(pre_filtered_flights) ==
  [c \in Range(AllCodes) |->
     SelectSeq(pre_filtered_flights, LAMBDA id : Flights[id].departure_city_code = c)]

\* flights_by_departure.get(code, [])
FlightsFrom(index, code) == IF code \in DOMAIN index THEN index[code] ELSE <<>>

\* ----------------------------------------------------------------- seeding
\* Lines 78-81: the country of a fixed start city (NoCity when there is none).
start_country ==
  IF cfg.start_city # NoCity THEN get_city_by_code(cfg.start_city) ELSE NoCity

\* Mutant of target_country_count: the country of a free start is not
\* counted against the goal.
target_country_count_FreeStart ==
  IF cfg.start_city = NoCity THEN cfg.num_countries + 1 ELSE cfg.num_countries

\* Line 84.
target_country_count == cfg.num_countries

\* Mutant of initial_cities: every city in scope is a start city.
initial_cities_Any == cfg.cities_choice

\* Line 91.
initial_cities ==
  IF cfg.start_city # NoCity THEN <<cfg.start_city>> ELSE cfg.cities_choice

\* Mutant of SeedFlights: a flight to an unknown city is seeded too.
SeedFlightsUnknownArrival(index, city_code) ==
  IF get_city_by_code(city_code) = NoCity THEN <<>>
  ELSE SelectSeq(FlightsFrom(index, city_code),
         LAMBDA id :
           get_city_by_code(Flights[id].arrival_city_code) # get_city_by_code(city_code))

\* Lines 93-100: the flights of one start city that are seeded.
SeedFlights(index, city_code) ==
  IF get_city_by_code(city_code) = NoCity THEN <<>>
  ELSE SelectSeq(FlightsFrom(index, city_code),
         LAMBDA id :
           /\ get_city_by_code(Flights[id].arrival_city_code) # NoCity
           /\ get_city_by_code(Flights[id].arrival_city_code) # get_city_by_code(city_code))

\* The seeded flights of all start cities, in the order the loops visit them.
RECURSIVE SeedOrder(_, _)
SeedOrder(index, cities) ==
  IF cities = <<>> THEN <<>>
  ELSE SeedFlights(index, Head(cities)) \o SeedOrder(index, Tail(cities))

\* Mutant of SeedNode: every city in scope counts as visited from the start.
SeedNodeAllCities(id, n) ==
  [duration |-> Flights[id].duration,
   counter |-> n,
   path |-> <<id>>,
   visited_countries |-> {get_city_by_code(Flights[id].departure_city_code),
                          get_city_by_code(Flights[id].arrival_city_code)},
   visited_cities |-> Range(cfg.cities_choice)]

\* Lines 102-106: the one-leg node of a seeded flight.
SeedNode(id, n) ==
  [duration |-> Flights[id].duration,
   counter |-> n,
   path |-> <<id>>,
   visited_countries |-> {get_city_by_code(Flights[id].departure_city_code),
                          get_city_by_code(Flights[id].arrival_city_code)},
   visited_cities |-> {Flights[id].departure_city_code, Flights[id].arrival_city_code}]

\* Lines 92-107: the queue after seeding.
SeedQueue(index) ==
  LET seeds == SeedOrder(index, initial_cities)
  IN {SeedNode(seeds[i], i - 1) : i \in 1..Len(seeds)}

\* ------------------------------------------------------------ search node
\* Mutant of new_countries_count: a fixed start country is counted too.
new_countries_count_WithStart(visited_countries) == Cardinality(visited_countries)

\* Lines 126-129 and 300-303: the number of new countries of a country set.
new_countries_count(visited_countries) ==
  IF cfg.start_city # NoCity /\ start_country # NoCity /\ start_country \in visited_countries
  THEN Cardinality(visited_countries) - 1
  ELSE Cardinality(visited_countries)

\* Python's truth value of pruning_threshold: None and timedelta(0) are false.
Truthy(threshold) == threshold # None /\ threshold # 0

\* The order of the heap's tuples (duration, counter, ...).
HeapLess(a, b) ==
  \/ a.duration < b.duration
  \/ a.duration = b.duration /\ a.counter < b.counter

\* Mutant of HeapTop: the node popped is the one pushed first, whatever it
\* costs.
HeapTopOldest(pq) == CHOOSE n \in pq : \A m \in pq : n.counter <= m.counter

\* heapq.heappop: the least node.
HeapTop(pq) == CHOOSE n \in pq : \A m \in pq \ {n} : HeapLess(n, m) \/ ~HeapLess(m, n)

last_flight(node) == Flights[Last(node.path)]

\* Mutant of forced_remaining: the forced cities already visited are counted.
forced_remaining_Visited(visited_cities) ==
  Cardinality(cfg.forced_cities \cap visited_cities)

\* Lines 143-144 and 313-314.
forced_remaining(visited_cities) ==
  Cardinality(cfg.forced_cities) - Cardinality(cfg.forced_cities \cap visited_cities)

\* Lines 160-183: some unvisited forced city is the arrival of a flight from
\* the current location, or of a flight from the arrival of such a flight.
can_reach_forced(index, node) ==
  LET current_location == last_flight(node).arrival_city_code
      direct == Range(FlightsFrom(index, current_location))
  IN \E forced_city \in cfg.forced_cities \ node.visited_cities :
        \/ \E id \in direct : Flights[id].arrival_city_code = forced_city
        \/ \E id \in direct :
             \E id2 \in Range(FlightsFrom(index, Flights[id].arrival_city_code)) :
                Flights[id2].arrival_city_code = forced_city

\* Lines 142-187: TRUE when the forced-city rules discard the popped node.
ForcedPruned(index, node) ==
  /\ cfg.forced_cities # {}
  /\ LET count == new_countries_count(node.visited_countries)
         remaining == forced_remaining(node.visited_cities)
         countries_left == target_country_count - count
     IN \/ count >= target_country_count /\ remaining > 0
        \/ remaining > 0 /\ countries_left < remaining
        \/ remaining > 0 /\ countries_left > 0 /\ ~can_reach_forced(index, node)

\* --------------------------------------------------------------- plan pool
\* TravelPlan.__post_init__: the sum of the legs' durations.
total_duration(flights) == SeqSum([i \in 1..Len(flights) |-> Flights[flights[i]].duration])

\* Lines 215-216: the key of a plan in found_plans.
path_signature(path) ==
  LET first_city == IF cfg.start_city # NoCity THEN cfg.start_city
                    ELSE Flights[path[1]].departure_city_code
  IN <<first_city>> \o [i \in 1..Len(path) |-> Flights[path[i]].arrival_city_code]

\* Lines 199-211: the start and continuity checks of a new plan.
path_valid(path) ==
  /\ cfg.start_city # NoCity => Flights[path[1]].departure_city_code = cfg.start_city
  /\ \A i \in 1..(Len(path) - 1) :
        Flights[path[i]].arrival_city_code = Flights[path[i + 1]].departure_city_code

TravelPlan(path) ==
  [sig |-> path_signature(path), flights |-> path, total_duration |-> total_duration(path)]

\* max(p.total_duration for p in found_plans.values()), for a non-empty pool.
WorstDuration(found) ==
  CHOOSE d \in {found[i].total_duration : i \in 1..Len(found)} :
     \A i \in 1..Len(found) : found[i].total_duration <= d

\* Lines 222-226: the pool without the first of its plans of the largest
\* duration (sorted(..., reverse=True) keeps equal plans in dict order).
EvictWorst(found) ==
  LET k == CHOOSE i \in 1..Len(found) :
             /\ found[i].total_duration = WorstDuration(found)
             /\ \A j \in 1..(i - 1) : found[j].total_duration < WorstDuration(found)
  IN SubSeq(found, 1, k - 1) \o SubSeq(found, k + 1, Len(found))

\* Mutant of Offer: a plan with a signature of the pool replaces the plan stored
\* under it, whatever its duration.
OfferReplaceAlways(found, new_plan) ==
  LET same == {i \in 1..Len(found) : found[i].sig = new_plan.sig}
      stored == IF same = {} THEN Append(found, new_plan)
                ELSE [i \in 1..Len(found) |-> IF i \in same THEN new_plan ELSE found[i]]
  IN IF Len(stored) > cfg.top_n THEN EvictWorst(stored) ELSE stored

\* Mutant of Offer: the pool is never cut back to top_n plans.
OfferNoEvict(found, new_plan) ==
  LET same == {i \in 1..Len(found) : found[i].sig = new_plan.sig}
      better == same = {} \/ \A i \in same : new_plan.total_duration < found[i].total_duration
      stored == IF same = {} THEN Append(found, new_plan)
                ELSE [i \in 1..Len(found) |-> IF i \in same THEN new_plan ELSE found[i]]
  IN IF ~better THEN found ELSE stored

\* Mutant of Offer: the new plan is stored without looking for its signature.
OfferNoLookup(found, new_plan) ==
  LET stored == Append(found, new_plan)
  IN IF Len(stored) > cfg.top_n THEN EvictWorst(stored) ELSE stored

\* Lines 218-226: found_plans after a new plan is offered.
Offer(found, new_plan) ==
  LET same == {i \in 1..Len(found) : found[i].sig = new_plan.sig}
      better == same = {} \/ \A i \in same : new_plan.total_duration < found[i].total_duration
      stored == IF same = {} THEN Append(found, new_plan)
                ELSE [i \in 1..Len(found) |-> IF i \in same THEN new_plan ELSE found[i]]
  IN IF ~better THEN found
     ELSE IF Len(stored) > cfg.top_n THEN EvictWorst(stored)
     ELSE stored

\* Mutant of NewThreshold: the threshold is the duration of the first plan.
NewThresholdFirst(found, threshold) ==
  IF Len(found) = cfg.top_n THEN found[1].total_duration ELSE threshold

\* Mutant of NewThreshold: the threshold is set as soon as the pool holds a plan.
NewThresholdEarly(found, threshold) ==
  IF Len(found) >= 1 THEN WorstDuration(found) ELSE threshold

\* Lines 228-229: the threshold after a goal was handled.
NewThreshold(found, threshold) ==
  IF Len(found) = cfg.top_n THEN WorstDuration(found) ELSE threshold

\* ---------------------------------------------------------------- expansion
\* Lines 240-252: the end city may be entered only as the last stop.
EndCityTooEarly(node, f) ==
  /\ cfg.end_city # NoCity
  /\ f.arrival_city_code = cfg.end_city
  /\ get_city_by_code(f.arrival_city_code) # NoCity
  /\ LET count == new_countries_count(node.visited_countries)
     IN IF get_city_by_code(f.arrival_city_code) \notin node.visited_countries
        THEN count # target_country_count - 1
        ELSE count # target_country_count

\* Mutant of LayoverOk: the lower bound of the window is not tested.
LayoverOkNoMin(node, f) ==
  /\ f.departure_datetime >= last_flight(node).arrival_datetime
  /\ f.departure_datetime - last_flight(node).arrival_datetime <= cfg.max_layover_hours

\* Lines 255-258: the connection is in the layover window.
LayoverOk(node, f) ==
  /\ f.departure_datetime >= last_flight(node).arrival_datetime
  /\ LET layover == f.departure_datetime - last_flight(node).arrival_datetime
     IN cfg.min_layover_hours <= layover /\ layover <= cfg.max_layover_hours

\* Mutant of CountryOk: a leg into a country already visited is accepted.
CountryOkRevisit(node, f) ==
  LET count == new_countries_count(node.visited_countries)
      is_new_country == get_city_by_code(f.arrival_city_code) \notin node.visited_countries
  IN is_new_country =>
       (count >= target_country_count =>
          (cfg.end_city # NoCity /\ f.arrival_city_code = cfg.end_city))

\* Lines 264-287: the country rule of an extension.
CountryOk(node, f) ==
  LET count == new_countries_count(node.visited_countries)
      is_new_country == get_city_by_code(f.arrival_city_code) \notin node.visited_countries
      is_final_leg_home == /\ cfg.end_city # NoCity
                           /\ f.arrival_city_code = cfg.end_city
                           /\ count >= target_country_count
  IN IF ~is_new_country THEN is_final_leg_home
     ELSE count >= target_country_count =>
            (cfg.end_city # NoCity /\ f.arrival_city_code = cfg.end_city)

\* Mutant of Extend: the cost grows by the time from the last arrival to the
\* new arrival, layover included.
ExtendWithLayover(node, id, n) ==
  [duration |-> node.duration + (Flights[id].arrival_datetime - last_flight(node).arrival_datetime),
   counter |-> n,
   path |-> Append(node.path, id),
   visited_countries |-> node.visited_countries \cup {get_city_by_code(Flights[id].arrival_city_code)},
   visited_cities |-> node.visited_cities \cup {Flights[id].arrival_city_code}]

\* Mutant of Extend: the new leg is put in front of the path.
ExtendPrepend(node, id, n) ==
  [duration |-> node.duration + Flights[id].duration,
   counter |-> n,
   path |-> <<id>> \o node.path,
   visited_countries |-> node.visited_countries \cup {get_city_by_code(Flights[id].arrival_city_code)},
   visited_cities |-> node.visited_cities \cup {Flights[id].arrival_city_code}]

\* Lines 289-326: the node that extends `node` by flight id, numbered n.
Extend(node, id, n) ==
  [duration |-> node.duration + Flights[id].duration,
   counter |-> n,
   path |-> Append(node.path, id),
   visited_countries |-> node.visited_countries \cup {get_city_by_code(Flights[id].arrival_city_code)},
   visited_cities |-> node.visited_cities \cup {Flights[id].arrival_city_code}]

\* Lines 291-322: the tests made on the extended node before it is pushed.
PushOk(node, id, threshold) ==
  LET f == Flights[id]
      new == Extend(node, id, 0)
      count == new_countries_count(new.visited_countries)
  IN /\ ~(Truthy(threshold) /\ new.duration >= threshold)
     /\ count > target_country_count =>
          (cfg.end_city # NoCity /\ f.arrival_city_code = cfg.end_city)
     /\ cfg.forced_cities # {} =>
          ~(/\ forced_remaining(new.visited_cities) > 0
            /\ target_country_count - count < forced_remaining(new.visited_cities))

\* Mutant of Accepts: the country rule is not tested.
AcceptsNoCountryRule(node, id, threshold) ==
  LET f == Flights[id]
  IN /\ f.departure_city_code = last_flight(node).arrival_city_code
     /\ ~EndCityTooEarly(node, f)
     /\ LayoverOk(node, f)
     /\ get_city_by_code(f.arrival_city_code) # NoCity
     /\ PushOk(node, id, threshold)

\* Mutant of Accepts: the layover window is not tested.
AcceptsNoLayover(node, id, threshold) ==
  LET f == Flights[id]
  IN /\ f.departure_city_code = last_flight(node).arrival_city_code
     /\ ~EndCityTooEarly(node, f)
     /\ get_city_by_code(f.arrival_city_code) # NoCity
     /\ CountryOk(node, f)
     /\ PushOk(node, id, threshold)

\* Lines 235-322: flight id of the adjacency list is pushed as a successor.
Accepts(node, id, threshold) ==
  LET f == Flights[id]
  IN /\ f.departure_city_code = last_flight(node).arrival_city_code
     /\ ~EndCityTooEarly(node, f)
     /\ LayoverOk(node, f)
     /\ get_city_by_code(f.arrival_city_code) # NoCity
     /\ CountryOk(node, f)
     /\ PushOk(node, id, threshold)

\* Mutant of Successors: counter is not advanced between two pushes.
SuccessorsSameCounter(index, node, n, threshold) ==
  LET ids == SelectSeq(FlightsFrom(index, last_flight(node).arrival_city_code),
                       LAMBDA id : Accepts(node, id, threshold))
  IN [i \in 1..Len(ids) |-> Extend(node, ids[i], n)]

\* The successors of a node, in the order they are pushed.
Successors(index, node, n, threshold) ==
  LET ids == SelectSeq(FlightsFrom(index, last_flight(node).arrival_city_code),
                       LAMBDA id : Accepts(node, id, threshold))
  IN [i \in 1..Len(ids) |-> Extend(node, ids[i], n + i - 1)]

\* ------------------------------------------------------- one loop iteration
\* The search state after the body of the while loop (lines 123-326) ran once
\* on the search state <<pq, found, n, threshold>>.  With prune = FALSE the two
\* threshold tests (lines 132 and 292) are left out.
Iteration(index, pq, found, n, threshold, prune) ==
  LET node == HeapTop(pq)
      rest == pq \ {node}
      test == IF prune THEN threshold ELSE None
      count == new_countries_count(node.visited_countries)
      discard == [pq |-> rest, found |-> found, counter |-> n,
                  threshold |-> threshold, error |-> FALSE]
      reached_target == count >= target_country_count
      at_goal == /\ reached_target
                 /\ cfg.end_city = NoCity \/ last_flight(node).arrival_city_code = cfg.end_city
  IN IF Truthy(test) /\ node.duration >= test THEN discard
     ELSE IF count > target_country_count THEN discard
     ELSE IF ForcedPruned(index, node) THEN discard
     ELSE IF at_goal
     THEN IF cfg.forced_cities # {} /\ ~(cfg.forced_cities \subseteq node.visited_cities)
          THEN discard
          ELSE IF ~path_valid(node.path) THEN discard
          ELSE LET pool == Offer(found, TravelPlan(node.path))
               IN IF Len(pool) = cfg.top_n /\ pool = <<>>
                  \* max() of an empty sequence raises ValueError
                  THEN [pq |-> rest, found |-> pool, counter |-> n,
                        threshold |-> threshold, error |-> TRUE]
                  ELSE [pq |-> rest, found |-> pool, counter |-> n,
                        threshold |-> NewThreshold(pool, threshold), error |-> FALSE]
     ELSE LET succ == Successors(index, node, n, test)
          IN [pq |-> rest \cup Range(succ), found |-> found, counter |-> n + Len(succ),
              threshold |-> threshold, error |-> FALSE]

\* Mutant of FinalResult: the list is sorted in descending order, as the
\* eviction of line 222 sorts it.
FinalResultDescending(found) ==
  LET sorted == SortByDuration(found)
      desc == [i \in 1..Len(sorted) |-> sorted[Len(sorted) + 1 - i]]
  IN SubSeq(desc, 1, IF cfg.top_n < Len(desc) THEN cfg.top_n ELSE Len(desc))

\* The search state when the loop, run from the state st without cancellation,
\* ends: the frontier is empty, or the body raised.
RECURSIVE RunToEnd(_, _, _)
RunToEnd(index, st, prune) ==
  IF st.pq = {} \/ st.error THEN st
  ELSE RunToEnd(index,
                Iteration(index, st.pq, st.found, st.counter, st.threshold, prune),
                prune)

\* The search state after seeding (lines 86-113).
SeedState(index) ==
  [pq |-> SeedQueue(index), found |-> <<>>,
   counter |-> Len(SeedOrder(index, initial_cities)),
   threshold |-> None, error |-> FALSE]

\* Lines 331-333: the returned list.
FinalResult(found) ==
  LET sorted == SortByDuration(found)
  IN SubSeq(sorted, 1, IF cfg.top_n < Len(sorted) THEN cfg.top_n ELSE Len(sorted))

\* ------------------------------------------------------------------ inputs
\* The flight universes: the flights of Flights picked by a set of at most
\* MaxFlights indices, in the order of the table.
Universes == {SetToSeq(S) : S \in {T \in SUBSET FlightIds : Cardinality(T) <= MaxFlights}}

\* The universes of fewer than MaxFlights flights, for the per-flight tests of
\* the pre-filter.
SmallUniverses == {u \in Universes : Len(u) < MaxFlights}

Config(flights, cities, start, end, k, n, forced, minlay) ==
  [base_flights |-> flights,
   cities_choice |-> cities,
   num_countries |-> k,
   start_city |-> start,
   end_city |-> end,
   flight_class_filter |-> <<"ALL">>,
   max_transfers |-> None,
   min_layover_hours |-> minlay,
   max_layover_hours |-> DefaultMaxLayover,
   max_flight_duration_hours |-> None,
   no_fly_start_hour |-> None,
   no_fly_end_hour |-> None,
   forced_cities |-> forced,
   top_n |-> n]

\* Over a universe u: fixed or free start, free or fixed end (CAI as the end of a
\* search from CAI is the explicit round trip), every goal and pool size.
CoreConfigs(u) ==
  {Config(u, AllCodes, s, e, k, n, {}, DefaultMinLayover) :
     s \in {NoCity, "CAI"}, e \in {NoCity, "TUN", "CAI"},
     k \in 1..MaxCountries, n \in {1, MaxTopN}}

\* A forced city.
ForcedConfigs(u) ==
  {Config(u, AllCodes, s, e, k, MaxTopN, {"TUN"}, DefaultMinLayover) :
     s \in {NoCity, "CAI"}, e \in {NoCity, "TUN"}, k \in 1..MaxCountries}

\* A forced city on a round trip from CAI: the forced city is not the end city.
ForcedHomeConfigs(u) ==
  {Config(u, AllCodes, "CAI", "CAI", k, MaxTopN, {"ALG"}, DefaultMinLayover) :
     k \in 1..MaxCountries}

\* A minimum layover of a day.
LayoverConfigs(u) ==
  {Config(u, AllCodes, s, NoCity, k, MaxTopN, {}, 24) :
     s \in {NoCity, "CAI"}, k \in 1..MaxCountries}

\* Layover bounds no itinerary can be meant by: a negative lower bound, and a
\* lower bound above the upper bound.  The caller (gui.find_plan_click) passes
\* any two integers on.
MalformedConfigs(u) ==
  {[Config(u, AllCodes, "CAI", NoCity, k, MaxTopN, {}, w[1]) EXCEPT !.max_layover_hours = w[2]] :
     k \in 1..MaxCountries, w \in {<<-2, DefaultMaxLayover>>, <<24, 12>>}}

\* The static filters <<flight_class_filter, max_transfers,
\* max_flight_duration_hours, cities_choice>>: one at a time, and together.
FilterSettings ==
  {<<<<"Economy">>, None, None, AllCodes>>,
   <<<<"Business">>, None, None, AllCodes>>,
   <<<<"ALL">>, 0, None, AllCodes>>,
   <<<<"ALL">>, 1, None, AllCodes>>,
   <<<<"ALL">>, None, 2, AllCodes>>,
   <<<<"ALL">>, None, 1, AllCodes>>,
   <<<<"ALL">>, None, None, <<"CAI", "ALG", "TUN">>>>,
   <<<<"Economy">>, 1, 2, <<"CAI", "TUN", "DLA", "NSI">>>>}

FilterConfigs(u) ==
  {[Config(u, f[4], "CAI", NoCity, k, MaxTopN, {}, DefaultMinLayover)
      EXCEPT !.flight_class_filter = f[1],
             !.max_transfers = f[2],
             !.max_flight_duration_hours = f[3]] :
     k \in 1..MaxCountries, f \in FilterSettings}

\* The no-fly bands <<no_fly_start_hour, no_fly_end_hour>>: within a day,
\* through midnight, empty, and with one hour unset.
NoFlyBands == {<<7, 9>>, <<22, 6>>, <<8, 8>>, <<None, 9>>, <<7, None>>}

NoFlyConfigs(u) ==
  {[Config(u, AllCodes, "CAI", NoCity, k, MaxTopN, {}, DefaultMinLayover)
      EXCEPT !.no_fly_start_hour = b[1], !.no_fly_end_hour = b[2]] :
     k \in 1..MaxCountries, b \in NoFlyBands}

\* The degenerate arguments: no country to visit, no plan wanted, no city in scope.
EdgeConfigs(u) ==
  {Config(u, AllCodes, "CAI", NoCity, k, 1, {}, DefaultMinLayover) :
     k \in {0, -1}}
  \cup {Config(u, AllCodes, "CAI", NoCity, k, 0, {}, DefaultMinLayover) :
          k \in 1..MaxCountries}
  \cup {Config(u, <<>>, "CAI", NoCity, 1, 1, {}, DefaultMinLayover)}

\* The forced city is the fixed end city NSI, in the country of DLA: flight 10
\* enters NSI from DLA, flight 5 from CAI.
ForcedEndUniverses == {<<4, 10>>, <<4, 5, 10>>}

ForcedEndConfigs(u) ==
  {Config(u, AllCodes, s, "NSI", k, n, {"NSI"}, DefaultMinLayover) :
     s \in {NoCity, "CAI"}, k \in 1..MaxCountries, n \in {1, MaxTopN}}

\* The forced city CMN is the last stop of a chain of four flights through
\* five countries.
ChainUniverse == <<1, 2, 11, 12>>

ChainConfigs(u) ==
  {Config(u, AllCodes, s, NoCity, k, n, {"CMN"}, DefaultMinLayover) :
     s \in {NoCity, "CAI"}, k \in Len(u)..(Len(u) + 1), n \in {1, MaxTopN}}

\* A tour that passes through TUN and comes back to it: CAI -> TUN -> DLA -> TUN.
ReturnUniverse == <<8, 11, 13>>

ReturnConfigs(u) ==
  {Config(u, AllCodes, s, "TUN", k, n, {}, DefaultMinLayover) :
     s \in {NoCity, "CAI"}, k \in 1..(MaxCountries + 1), n \in {1, MaxTopN}}

ScenarioUniverses == ForcedEndUniverses \cup {ChainUniverse, ReturnUniverse}

\* The configurations over the universe u.
Configs(u) ==
  IF u \in ForcedEndUniverses THEN ForcedEndConfigs(u)
  ELSE IF u = ChainUniverse THEN ChainConfigs(u)
  ELSE IF u = ReturnUniverse THEN ReturnConfigs(u)
  ELSE
  CoreConfigs(u) \cup ForcedConfigs(u) \cup LayoverConfigs(u) \cup EdgeConfigs(u)
    \cup IF u \in SmallUniverses
         THEN ForcedHomeConfigs(u) \cup MalformedConfigs(u) \cup FilterConfigs(u)
                \cup NoFlyConfigs(u)
         ELSE {}

\* The state at the entry of find_best_travel_plan, for a configuration over
\* one of the given universes.
InitOver(universes) ==
  /\ \E u \in universes : cfg \in Configs(u)
  /\ pc = "start"
  /\ flights_by_departure = [c \in Range(AllCodes) |-> <<>>]
  /\ priority_queue = {}
  /\ found_plans = <<>>
  /\ counter = 0
  /\ pruning_threshold = None
  /\ paths_explored = 0
  /\ stop_event = FALSE
  /\ result = <<>>

Init == InitOver(Universes \cup ScenarioUniverses)

\* The universes of the runs checked for progress: the scenarios, and the
\* largest universes that hold CAI -> ALG -> TUN with the way back to CAI
\* (flight 3) or the zero-hour CAI -> TUN (flight 8).
FairUniverses ==
  ScenarioUniverses
    \cup {u \in Universes :
            /\ Len(u) = MaxFlights
            /\ {1, 2} \subseteq Range(u)
            /\ Range(u) \cap {3, 8} # {}}

FairInit == InitOver(FairUniverses)

\* ----------------------------------------------------------------- actions
\* Lines 36-37 and 58: nothing to search.
EarlyReturn ==
  /\ pc = "start"
  /\ \/ cfg.base_flights = <<>>
     \/ cfg.cities_choice = <<>>
     \/ cfg.num_countries <= 0
     \/ PreFilter(cfg.base_flights) = <<>>
  /\ pc' = "done"
  /\ result' = <<>>
  /\ UNCHANGED <<cfg, flights_by_departure, priority_queue, found_plans, counter,
                 pruning_threshold, paths_explored, stop_event>>

\* Mutant of Prepare: the arguments are not tested before the search is set up.
PrepareUnguarded ==
  /\ pc = "start"
  /\ PreFilter(cfg.base_flights) # <<>>
  /\ LET index == BuildIndex(ForcedReorder(PreFilter(cfg.base_flights)))
     IN /\ flights_by_departure' = index
        /\ priority_queue' = SeedQueue(index)
        /\ counter' = Len(SeedOrder(index, initial_cities))
  /\ pc' = "check"
  /\ UNCHANGED <<cfg, found_plans, pruning_threshold, paths_explored, stop_event, result>>

\* Lines 39-113: pre-filter, reorder, index, seed.
Prepare ==
  /\ pc = "start"
  /\ cfg.base_flights # <<>>
  /\ cfg.cities_choice # <<>>
  /\ cfg.num_countries > 0
  /\ PreFilter(cfg.base_flights) # <<>>
  /\ LET index == BuildIndex(ForcedReorder(PreFilter(cfg.base_flights)))
     IN /\ flights_by_departure' = index
        /\ priority_queue' = SeedQueue(index)
        /\ counter' = Len(SeedOrder(index, initial_cities))
  /\ pc' = "check"
  /\ UNCHANGED <<cfg, found_plans, pruning_threshold, paths_explored, stop_event, result>>

\* Mutant of LoopEnter: the loop goes on without looking at stop_event.
LoopEnterNoStopCheck ==
  /\ pc = "check"
  /\ priority_queue # {}
  /\ paths_explored' = paths_explored + 1
  /\ pc' = "body"
  /\ UNCHANGED <<cfg, flights_by_departure, priority_queue, found_plans, counter,
                 pruning_threshold, stop_event, result>>

\* Lines 115-119: the loop goes on.
LoopEnter ==
  /\ pc = "check"
  /\ priority_queue # {}
  /\ ~stop_event
  /\ paths_explored' = paths_explored + 1
  /\ pc' = "body"
  /\ UNCHANGED <<cfg, flights_by_departure, priority_queue, found_plans, counter,
                 pruning_threshold, stop_event, result>>

\* Lines 123-326: pop a node and handle it.
LoopBody ==
  /\ pc = "body"
  /\ LET next == Iteration(flights_by_departure, priority_queue, found_plans,
                           counter, pruning_threshold, TRUE)
     IN /\ priority_queue' = next.pq
        /\ found_plans' = next.found
        /\ counter' = next.counter
        /\ pruning_threshold' = next.threshold
        /\ pc' = IF next.error THEN "error" ELSE "check"
  /\ UNCHANGED <<cfg, flights_by_departure, paths_explored, stop_event, result>>

\* Lines 115 and 328-333: the frontier is empty.
LoopExit ==
  /\ pc = "check"
  /\ priority_queue = {}
  /\ result' = FinalResult(found_plans)
  /\ pc' = "done"
  /\ UNCHANGED <<cfg, flights_by_departure, priority_queue, found_plans, counter,
                 pruning_threshold, paths_explored, stop_event>>

\* Mutant of Cancel: the stopped search goes round the loop without popping
\* and without returning.
CancelContinue ==
  /\ pc = "check"
  /\ priority_queue # {}
  /\ stop_event
  /\ pc' = "check"
  /\ UNCHANGED <<cfg, flights_by_departure, priority_queue, found_plans, counter,
                 pruning_threshold, paths_explored, stop_event, result>>

\* Lines 116-118 and 328-333: the search is stopped.
Cancel ==
  /\ pc = "check"
  /\ priority_queue # {}
  /\ stop_event
  /\ result' = FinalResult(found_plans)
  /\ pc' = "done"
  /\ UNCHANGED <<cfg, flights_by_departure, priority_queue, found_plans, counter,
                 pruning_threshold, paths_explored, stop_event>>

\* gui.stop_search_click: another thread sets the event while the search runs.
SetStop ==
  /\ pc \in {"start", "check", "body"}
  /\ ~stop_event
  /\ stop_event' = TRUE
  /\ UNCHANGED <<cfg, pc, flights_by_departure, priority_queue, found_plans, counter,
                 pruning_threshold, paths_explored, result>>

Next ==
  \/ EarlyReturn
  \/ Prepare
  \/ LoopEnter
  \/ LoopBody
  \/ LoopExit
  \/ Cancel
  \/ SetStop

Spec == Init /\ [][Next]_vars

\* The steps of the search thread (gui.run_search), which runs until the
\* function returns or raises; the thread of the stop button owes no step.
SearchStep == EarlyReturn \/ Prepare \/ LoopEnter \/ LoopBody \/ LoopExit \/ Cancel

FairSpec == FairInit /\ [][Next]_vars /\ WF_vars(SearchStep)

\* =================================================================== claims
\* What a returned plan is, read from its legs alone.
Leg(plan, i) == Flights[plan.flights[i]]

\* The city the plan leaves from, and the cities and countries it touches.
PlanStartCity(plan) == Leg(plan, 1).departure_city_code

PlanCities(plan) ==
  {PlanStartCity(plan)} \cup {Leg(plan, i).arrival_city_code : i \in 1..Len(plan.flights)}

PlanCountries(plan) == {get_city_by_code(c) : c \in PlanCities(plan)}

Contiguous(path) ==
  \A i \in 1..(Len(path) - 1) :
     Flights[path[i]].arrival_city_code = Flights[path[i + 1]].departure_city_code

Returned == {result[i] : i \in 1..Len(result)}

\* The search ended by exhausting the frontier (not by the early return of
\* an empty input, and not by cancellation).
Exhausted == pc = "done" /\ priority_queue = {} /\ paths_explored > 0

\* C1: in every returned plan, and in the path of every node on the priority
\* queue, each leg departs from the city the leg before it arrives at.
C1_Contiguity ==
  /\ \A node \in priority_queue : Contiguous(node.path)
  /\ \A plan \in Returned : Contiguous(plan.flights)

\* C1 witness: a plan of at least two legs is returned.
C1_Witness ==
  /\ pc = "done"
  /\ \E plan \in Returned : Len(plan.flights) >= 2

\* C2: the number of distinct countries of a returned plan (its start city and
\* all leg destinations), the start country left out when start_city is fixed,
\* is exactly num_countries.
PlanNewCountries(plan) ==
  IF cfg.start_city # NoCity
  THEN PlanCountries(plan) \ {get_city_by_code(cfg.start_city)}
  ELSE PlanCountries(plan)

C2_ExactCountryCount ==
  \A plan \in Returned : Cardinality(PlanNewCountries(plan)) = cfg.num_countries

\* C2 witness: plans are returned for a fixed start and a fixed end, the end
\* lying in the start country.
C2_Witness ==
  /\ pc = "done"
  /\ result # <<>>
  /\ cfg.start_city = "CAI"
  /\ cfg.end_city = "CAI"

\* C3: every layover of a returned plan lies in
\* [min_layover_hours, max_layover_hours], both bounds included.
PlanLayovers(plan) ==
  {Leg(plan, i + 1).departure_datetime - Leg(plan, i).arrival_datetime :
     i \in 1..(Len(plan.flights) - 1)}

C3_LayoverWindow ==
  \A plan \in Returned :
     \A layover \in PlanLayovers(plan) :
        cfg.min_layover_hours <= layover /\ layover <= cfg.max_layover_hours

\* C3 witness: a returned plan has a layover of exactly max_layover_hours.
C3_Witness ==
  /\ pc = "done"
  /\ \E plan \in Returned : cfg.max_layover_hours \in PlanLayovers(plan)

\* C4: with forced cities, the cities of every returned plan (its first
\* departure city and every arrival city) include every forced city.
C4_ForcedVisited ==
  cfg.forced_cities # {} =>
     \A plan \in Returned : cfg.forced_cities \subseteq PlanCities(plan)

\* C4 witness: a plan is returned while a city is forced.
C4_Witness ==
  /\ pc = "done"
  /\ cfg.forced_cities # {}
  /\ result # <<>>

\* C5: the returned list is in non-decreasing order of total_duration and has
\* at most top_n plans, cancelled or not.
C5_SortedBounded ==
  pc = "done" =>
     /\ Len(result) <= cfg.top_n
     /\ \A i \in 1..(Len(result) - 1) :
           result[i].total_duration <= result[i + 1].total_duration

\* C5 witness: a cancelled search returns top_n >= 2 plans of different durations.
C5_Witness ==
  /\ pc = "done"
  /\ stop_event
  /\ priority_queue # {}
  /\ Len(result) = cfg.top_n
  /\ Len(result) >= 2
  /\ result[1].total_duration < result[2].total_duration

\* The cities of a plan in order: its start city, then each leg's arrival city.
CitySequence(plan) ==
  <<PlanStartCity(plan)>>
    \o [i \in 1..Len(plan.flights) |-> Leg(plan, i).arrival_city_code]

\* A sequence without the later occurrences of its elements.
RECURSIVE Distinct(_)
Distinct(s) ==
  IF s = <<>> THEN <<>>
  ELSE LET front == Distinct(SubSeq(s, 1, Len(s) - 1))
       IN IF Last(s) \in Range(front) THEN front ELSE Append(front, Last(s))

\* The route signature of the specification: the start country followed by
\* each newly entered country.
CountrySignature(plan) ==
  Distinct([i \in 1..Len(CitySequence(plan)) |-> get_city_by_code(CitySequence(plan)[i])])

UnprunedFound == RunToEnd(flights_by_departure, SeedState(flights_by_departure), FALSE).found

Durations(plans) == [i \in 1..Len(plans) |-> plans[i].total_duration]

\* C7: the ascending list of the total durations returned by a search that is
\* not cancelled is the list the search returns without its threshold tests.
C7_PruningKeepsDurations ==
  (pc = "done" /\ priority_queue = {} /\ cfg.top_n >= 1) =>
     Durations(result) = Durations(FinalResult(UnprunedFound))

\* C7 witness: a search ends whose threshold tests discarded a node that the
\* search without them turns into a retained plan.
C7_Witness ==
  /\ pc = "done"
  /\ priority_queue = {}
  /\ cfg.top_n >= 1
  /\ paths_explored > 0
  /\ found_plans # UnprunedFound

\* C8: the search is a function of its inputs.  Every push takes the next
\* value of counter, so the numbers of the queued nodes are pairwise different
\* and grow with the time of the push; the node a step pops is the single
\* least node in (duration, counter), so of two nodes of equal cost the one
\* pushed earlier is popped first.
C8_Deterministic ==
  [][ /\ counter' >= counter
      /\ \A a \in priority_queue' \ priority_queue :
            counter <= a.counter /\ a.counter < counter'
      /\ Cardinality(priority_queue' \ priority_queue) = counter' - counter
      /\ \A a, b \in priority_queue' : a # b => a.counter # b.counter
      /\ (pc = "body" /\ pc' # "body") =>
           \E n \in priority_queue :
              /\ priority_queue \ priority_queue' = {n}
              /\ \A m \in priority_queue \ {n} :
                    \/ n.duration < m.duration
                    \/ n.duration = m.duration /\ n.counter < m.counter
    ]_vars

\* C8 witness: a node is about to be popped while another node of the same
\* cost is on the queue.
C8_Witness ==
  /\ pc = "body"
  /\ \E a, b \in priority_queue :
        /\ a # b
        /\ a.duration = b.duration
        /\ \A m \in priority_queue : a.duration <= m.duration

\* Every leg of the path enters a country that neither the start city nor an
\* earlier leg lies in.
EachLegNewCountry(path) ==
  \A i \in 1..Len(path) :
     get_city_by_code(Flights[path[i]].arrival_city_code) \notin
        ({get_city_by_code(Flights[path[1]].departure_city_code)}
           \cup {get_city_by_code(Flights[path[j]].arrival_city_code) : j \in 1..(i - 1)})

\* No static filter and no no-fly band is set.
Unfiltered ==
  /\ cfg.flight_class_filter = <<"ALL">>
  /\ cfg.max_transfers = None
  /\ cfg.max_flight_duration_hours = None
  /\ cfg.no_fly_start_hour = None
  /\ cfg.no_fly_end_hour = None

\* Scenario A: X -> Y (2h), Y -> Z (3h, 12h after the arrival at Y), Z -> X
\* (2h), X = CAI, Y = ALG, Z = TUN; goal 2, start X, no end, default layovers.
ScenarioA ==
  /\ Unfiltered
  /\ cfg.base_flights = <<1, 2, 3>>
  /\ cfg.cities_choice = AllCodes
  /\ cfg.start_city = "CAI"
  /\ cfg.end_city = NoCity
  /\ cfg.num_countries = 2
  /\ cfg.forced_cities = {}
  /\ cfg.min_layover_hours = DefaultMinLayover
  /\ cfg.max_layover_hours = DefaultMaxLayover
  /\ cfg.top_n >= 1

\* C9: with a fixed start and no fixed end a node is never extended once its
\* new-country count reaches the goal: a queued path has at most num_countries
\* legs, a returned plan exactly num_countries, each leg entering a country not
\* visited before; and Scenario A, searched to the end, returns the single plan
\* X -> Y -> Z of 5 hours.
C9_StopsAtGoal ==
  (cfg.start_city # NoCity /\ cfg.end_city = NoCity) =>
     /\ \A node \in priority_queue :
           Len(node.path) <= cfg.num_countries /\ EachLegNewCountry(node.path)
     /\ \A plan \in Returned :
           Len(plan.flights) = cfg.num_countries /\ EachLegNewCountry(plan.flights)
     /\ (ScenarioA /\ pc = "done" /\ priority_queue = {}) =>
           /\ Len(result) = 1
           /\ result[1].flights = <<1, 2>>
           /\ result[1].total_duration = 5

\* C9 witness: Scenario A was searched to the end and returned one plan.
C9_Witness ==
  /\ ScenarioA
  /\ Exhausted
  /\ Len(result) = 1

\* The itineraries over the eligible flights: each leg leaves from the arrival
\* city of the leg before it, after a layover in the window.
Connects(a, b) ==
  /\ Flights[a].arrival_city_code = Flights[b].departure_city_code
  /\ cfg.min_layover_hours <= Flights[b].departure_datetime - Flights[a].arrival_datetime
  /\ Flights[b].departure_datetime - Flights[a].arrival_datetime <= cfg.max_layover_hours

Eligible == Range(PreFilter(cfg.base_flights))

RECURSIVE Itineraries(_)
Itineraries(n) ==
  IF n <= 1 THEN {<<id>> : id \in Eligible}
  ELSE LET shorter == Itineraries(n - 1)
       IN shorter \cup
          {q \in {Append(p, id) : p \in shorter, id \in Eligible} :
             Connects(q[Len(q) - 1], q[Len(q)])}

\* An itinerary that meets the start, end, goal and forced-city constraints.
Feasible(path) ==
  LET plan == [flights |-> path]
  IN /\ NoCity \notin PlanCountries(plan)
     /\ cfg.start_city # NoCity => PlanStartCity(plan) = cfg.start_city
     /\ cfg.end_city # NoCity => Flights[Last(path)].arrival_city_code = cfg.end_city
     /\ Cardinality(PlanNewCountries(plan)) = cfg.num_countries
     /\ cfg.forced_cities \subseteq PlanCities(plan)

FeasibleItineraries == {p \in Itineraries(Len(cfg.base_flights)) : Feasible(p)}

\* Scenario B: the universe of Scenario A with a minimum layover of 24 hours.
ScenarioB ==
  /\ Unfiltered
  /\ cfg.base_flights = <<1, 2, 3>>
  /\ cfg.cities_choice = AllCodes
  /\ cfg.start_city = "CAI"
  /\ cfg.end_city = NoCity
  /\ cfg.num_countries = 2
  /\ cfg.forced_cities = {}
  /\ cfg.min_layover_hours = 24
  /\ cfg.top_n >= 1

\* C10: when no itinerary satisfies the constraints, the search never raises,
\* never accepts a plan, ends with an empty frontier unless it is cancelled,
\* and returns the empty list.
C10_InfeasibleIsEmpty ==
  \/ /\ pc # "error"
     /\ found_plans = <<>>
     /\ pc = "done" => result = <<>>
     /\ (pc = "done" /\ ~stop_event) => priority_queue = {}
  \/ FeasibleItineraries # {}

\* C10 witness: Scenario B was searched until the frontier was empty.
C10_Witness ==
  /\ ScenarioB
  /\ FeasibleItineraries = {}
  /\ Exhausted
  /\ result = <<>>

\* Scenario C: forced city Z = TUN, goal 1, start X = CAI; Z is reached only
\* through Y = ALG, a second country.
ScenarioC ==
  /\ Unfiltered
  /\ cfg.base_flights = <<1, 2>>
  /\ cfg.cities_choice = AllCodes
  /\ cfg.start_city = "CAI"
  /\ cfg.end_city = NoCity
  /\ cfg.num_countries = 1
  /\ cfg.forced_cities = {"TUN"}
  /\ cfg.min_layover_hours = DefaultMinLayover

\* Every itinerary from the start (to the end city, when one is fixed) that
\* visits all forced cities enters more than num_countries new countries.
ForcedNeedsMore ==
  /\ cfg.forced_cities # {}
  /\ \A p \in Itineraries(Len(cfg.base_flights)) :
        LET plan == [flights |-> p]
        IN (/\ NoCity \notin PlanCountries(plan)
            /\ cfg.start_city # NoCity => PlanStartCity(plan) = cfg.start_city
            /\ cfg.end_city # NoCity => Flights[Last(p)].arrival_city_code = cfg.end_city
            /\ cfg.forced_cities \subseteq PlanCities(plan))
           => Cardinality(PlanNewCountries(plan)) > cfg.num_countries

\* The node has fewer new countries left in its budget than forced cities
\* left to visit, both read from the node's own sets.
OverBudget(node) ==
  LET visited == IF cfg.start_city # NoCity
                 THEN node.visited_countries \ {get_city_by_code(cfg.start_city)}
                 ELSE node.visited_countries
  IN cfg.num_countries - Cardinality(visited)
       < Cardinality(cfg.forced_cities \ node.visited_cities)

\* C11: a popped node whose remaining country budget is smaller than its
\* number of unvisited forced cities is dropped (it pushes no successor and
\* stores no plan), no extension with that defect is ever pushed (only a seed
\* can carry it), and when every route through all forced cities needs more
\* than num_countries new countries the returned list is empty.
C11_ForcedBudget ==
  [][ /\ (pc = "body" /\ pc' # "body" /\ OverBudget(HeapTop(priority_queue))) =>
           /\ priority_queue' = priority_queue \ {HeapTop(priority_queue)}
           /\ found_plans' = found_plans
      /\ \A node \in priority_queue' : Len(node.path) >= 2 => ~OverBudget(node)
      /\ (pc' = "done" /\ result' # <<>>) => ~ForcedNeedsMore
    ]_vars

\* C11 witness: Scenario C was searched to the end, its only seed X -> Y being
\* over budget, and nothing was returned.
C11_Witness ==
  /\ ScenarioC
  /\ ForcedNeedsMore
  /\ Exhausted
  /\ result = <<>>

\* The list holds exactly the plans of the pool, in non-decreasing order of
\* total_duration.
SortedPool(list, pool) ==
  /\ Len(list) = Len(pool)
  /\ Range(list) = Range(pool)
  /\ \A i \in 1..(Len(list) - 1) : list[i].total_duration <= list[i + 1].total_duration

\* C12: when stop_event is set at the top of an iteration, the only step the
\* search takes is the return: no node is popped (paths_explored and the queue
\* are unchanged), the pool is unchanged and is returned sorted; the result is
\* empty when no node was popped before; and nothing happens after the return.
C12_CancelBeforePop ==
  [][ /\ (pc = "check" /\ stop_event) =>
           /\ pc' = "done"
           /\ paths_explored' = paths_explored
           /\ priority_queue' = priority_queue
           /\ found_plans' = found_plans
           /\ SortedPool(result', found_plans)
           /\ paths_explored = 0 => result' = <<>>
      /\ pc # "done"
    ]_vars

\* C12 witness: the search was stopped with nodes still queued and returned
\* the plan it had found by then.
C12_Witness ==
  /\ pc = "done"
  /\ stop_event
  /\ priority_queue # {}
  /\ paths_explored > 0
  /\ result # <<>>
  /\ SortedPool(result, found_plans)

\* C13: with no base flight, no city in scope or num_countries <= 0 the
\* function goes from its entry straight to the return of the empty list: no
\* index is built, nothing is seeded and no node is popped.
C13_EmptyInput ==
  (cfg.base_flights = <<>> \/ cfg.cities_choice = <<>> \/ cfg.num_countries <= 0) =>
     /\ pc \in {"start", "done"}
     /\ \A c \in DOMAIN flights_by_departure : flights_by_departure[c] = <<>>
     /\ priority_queue = {}
     /\ counter = 0
     /\ paths_explored = 0
     /\ found_plans = <<>>
     /\ result = <<>>

\* C13 witness: the function returned for a goal of zero countries over a
\* universe with flights from the start city.
C13_Witness ==
  /\ pc = "done"
  /\ cfg.num_countries <= 0
  /\ cfg.cities_choice # <<>>
  /\ \E i \in 1..Len(cfg.base_flights) :
        Flights[cfg.base_flights[i]].departure_city_code = cfg.start_city
  /\ result = <<>>

\* The layover bounds are malformed: one of them is negative, or the lower
\* bound exceeds the upper bound.
Malformed ==
  \/ cfg.min_layover_hours < 0
  \/ cfg.max_layover_hours < 0
  \/ cfg.min_layover_hours > cfg.max_layover_hours

\* C14: for malformed layover bounds the search is never set up: the function
\* does not reach the loop, nothing is seeded, no node is popped, and no list
\* of plans is returned.
C14_MalformedRejected ==
  Malformed =>
     /\ pc \notin {"check", "body"}
     /\ priority_queue = {}
     /\ counter = 0
     /\ paths_explored = 0
     /\ result = <<>>

\* C15: the search never ends in an error, and the returned list has at most
\* top_n plans, for every top_n from 0 on; with top_n = 0 it is empty.
C15_ZeroTopNCompletes ==
  /\ pc # "error"
  /\ pc = "done" => Len(result) <= cfg.top_n
  /\ (pc = "done" /\ cfg.top_n = 0) => result = <<>>

\* The pre-filter ran: the arguments passed the test of lines 36-37.
PreFilterRan ==
  /\ pc # "start"
  /\ cfg.base_flights # <<>>
  /\ cfg.cities_choice # <<>>
  /\ cfg.num_countries > 0

\* The flights of the pre-filter output, as the adjacency index holds them.
IndexFlights == UNION {Range(flights_by_departure[c]) : c \in DOMAIN flights_by_departure}

\* The class filter accepts any class, or its text occurs in the class of the
\* flight.
ClassMatches(cls) ==
  \/ cfg.flight_class_filter = <<"ALL">>
  \/ \E i \in 1..Len(cls) :
        /\ i + Len(cfg.flight_class_filter) - 1 <= Len(cls)
        /\ SubSeq(cls, i, i + Len(cfg.flight_class_filter) - 1) = cfg.flight_class_filter

\* The four static conditions of a flight.
StaticOk(id) ==
  /\ ClassMatches(Flights[id].flight_class)
  /\ cfg.max_transfers = None \/ Flights[id].transfers <= cfg.max_transfers
  /\ cfg.max_flight_duration_hours = None
       \/ Flights[id].duration <= cfg.max_flight_duration_hours
  /\ {Flights[id].departure_city_code, Flights[id].arrival_city_code}
       \subseteq Range(cfg.cities_choice)

\* The hours of the day of the configured band (none when an hour is unset).
BandHours ==
  IF cfg.no_fly_start_hour = None \/ cfg.no_fly_end_hour = None THEN {}
  ELSE IF cfg.no_fly_start_hour <= cfg.no_fly_end_hour
  THEN cfg.no_fly_start_hour..(cfg.no_fly_end_hour - 1)
  ELSE cfg.no_fly_start_hour..23 \cup 0..(cfg.no_fly_end_hour - 1)

DepartureHour(id) == Flights[id].departure_datetime % 24

ArrivalHour(id) == Flights[id].arrival_datetime % 24

\* C16 as stated: the pre-filter output is exactly the set of flights that meet
\* the four static conditions.
C16_Original ==
  PreFilterRan => IndexFlights = {id \in Range(cfg.base_flights) : StaticOk(id)}

\* C16, amended: the pre-filter output is exactly the set of flights that meet
\* the four static conditions and do not depart in the no-fly band; each of
\* them is kept once.
C16_StaticFilter ==
  PreFilterRan =>
     /\ IndexFlights =
          {id \in Range(cfg.base_flights) : StaticOk(id) /\ DepartureHour(id) \notin BandHours}
     /\ \A c \in DOMAIN flights_by_departure :
           Cardinality(Range(flights_by_departure[c])) = Len(flights_by_departure[c])

\* C16 witness: with a duration limit, a flight exactly as long as the limit
\* was kept and a longer one dropped.
C16_Witness ==
  /\ PreFilterRan
  /\ cfg.max_flight_duration_hours # None
  /\ \E id \in IndexFlights : Flights[id].duration = cfg.max_flight_duration_hours
  /\ \E id \in Range(cfg.base_flights) \ IndexFlights :
        Flights[id].duration > cfg.max_flight_duration_hours

\* C17: a flight that meets the static conditions, departing at hour h, is
\* left out for the band (s, e) iff s <= h < e when s <= e, and iff h >= s or
\* h < e when s > e; none is left out when s = e or when s or e is unset.
C17_NoFlyBand ==
  PreFilterRan =>
     LET output == IndexFlights
     IN \A id \in Range(cfg.base_flights) :
        StaticOk(id) =>
           LET h == DepartureHour(id)
               s == cfg.no_fly_start_hour
               e == cfg.no_fly_end_hour
               excluded == id \notin output
           IN /\ (s = None \/ e = None) => ~excluded
              /\ (s # None /\ e # None /\ s <= e) => (excluded <=> (s <= h /\ h < e))
              /\ (s # None /\ e # None /\ s > e) => (excluded <=> (h >= s \/ h < e))
              /\ (s # None /\ s = e) => ~excluded

\* C17 witness: for a band through midnight, a flight departing at the start
\* hour was left out and a flight departing at the end hour was kept.
C17_Witness ==
  /\ PreFilterRan
  /\ cfg.no_fly_start_hour # None
  /\ cfg.no_fly_end_hour # None
  /\ cfg.no_fly_start_hour > cfg.no_fly_end_hour
  /\ \E id \in Range(cfg.base_flights) \ IndexFlights :
        DepartureHour(id) = cfg.no_fly_start_hour
  /\ \E id \in IndexFlights : DepartureHour(id) = cfg.no_fly_end_hour

\* C18: with a no-fly band set, no flight of the pre-filter output and no leg
\* of a returned plan departs or arrives at an hour of the band.
C18_ArrivalOutsideBand ==
  /\ \A id \in IndexFlights :
        DepartureHour(id) \notin BandHours /\ ArrivalHour(id) \notin BandHours
  /\ \A plan \in Returned :
        \A i \in 1..Len(plan.flights) :
           /\ DepartureHour(plan.flights[i]) \notin BandHours
           /\ ArrivalHour(plan.flights[i]) \notin BandHours

\* The place of a flight in a sequence that holds it once.
Pos(seq, id) == CHOOSE i \in 1..Len(seq) : seq[i] = id

\* The flight has an end in a forced city.
InForcedGroup(id) ==
  {Flights[id].departure_city_code, Flights[id].arrival_city_code} \cap cfg.forced_cities # {}

\* a comes before b in seq.
Before(seq, a, b) == Pos(seq, a) < Pos(seq, b)

\* C19: with forced cities, the reordered list is a permutation of the
\* pre-filtered flights (same flights, same length, none twice), every flight
\* of the forced group comes before every other flight, two flights of the
\* same group keep their order, and the index built from it holds exactly the
\* pre-filtered flights.
C19_ReorderIsPermutation ==
  (cfg.forced_cities # {} /\ PreFilterRan) =>
     LET before == PreFilter(cfg.base_flights)
         after == ForcedReorder(before)
     IN /\ Len(after) = Len(before)
        /\ Range(after) = Range(before)
        /\ Cardinality(Range(after)) = Len(after)
        /\ \A a, b \in Range(before) :
              /\ (InForcedGroup(a) /\ ~InForcedGroup(b)) => Before(after, a, b)
              /\ (InForcedGroup(a) = InForcedGroup(b) /\ Before(before, a, b))
                   => Before(after, a, b)
        /\ IndexFlights = Range(before)

\* C19 witness: the reordering moved a flight of the forced group in front of
\* another flight, and one of the groups has two flights.
C19_Witness ==
  /\ cfg.forced_cities # {}
  /\ PreFilterRan
  /\ pc = "check"
  /\ LET before == PreFilter(cfg.base_flights)
     IN /\ ForcedReorder(before) # before
        /\ \E a, b \in Range(before) : a # b /\ InForcedGroup(a) = InForcedGroup(b)

\* The flights of the universe that the pre-filter keeps, by the conditions
\* themselves.
Kept == {id \in Range(cfg.base_flights) : StaticOk(id) /\ DepartureHour(id) \notin BandHours}

\* Every list of the index holds exactly the kept flights departing from its key.
ListsByDeparture ==
  LET kept == Kept
  IN \A c \in DOMAIN flights_by_departure :
        /\ Range(flights_by_departure[c]) = {id \in kept : Flights[id].departure_city_code = c}
        /\ Cardinality(Range(flights_by_departure[c])) = Len(flights_by_departure[c])

C21_StartAndEnd ==
  /\ cfg.start_city # NoCity =>
        /\ \A node \in priority_queue :
              Flights[Head(node.path)].departure_city_code = cfg.start_city
        /\ \A plan \in Returned : Leg(plan, 1).departure_city_code = cfg.start_city
  /\ cfg.end_city # NoCity =>
        \A plan \in Returned :
           Leg(plan, Len(plan.flights)).arrival_city_code = cfg.end_city

\* C21 witness: a plan of two legs is returned for a fixed start and a
\* different fixed end, over a universe that also has flights from other cities
\* to other cities.
C21_Witness ==
  /\ pc = "done"
  /\ cfg.start_city = "CAI"
  /\ cfg.end_city = "TUN"
  /\ \E plan \in Returned : Len(plan.flights) = 2
  /\ \E i \in 1..Len(cfg.base_flights) :
        /\ Flights[cfg.base_flights[i]].departure_city_code # cfg.start_city
        /\ Flights[cfg.base_flights[i]].arrival_city_code # cfg.end_city

\* The plans of the pool.
Pool == Range(found_plans)

\* C22: for top_n >= 1, after every step the pool holds at most top_n plans
\* and no two of them have the same signature; one iteration adds at most one
\* plan to the pool and removes at most one.
C22_PoolBounded ==
  [][ cfg.top_n >= 1 =>
        /\ Len(found_plans') <= cfg.top_n
        /\ \A i, j \in 1..Len(found_plans') :
              found_plans'[i].sig = found_plans'[j].sig => i = j
        /\ Cardinality(Range(found_plans') \ Pool) <= 1
        /\ Cardinality(Pool \ Range(found_plans')) <= 1
    ]_vars

\* C22 witness: with goal 1 from a fixed start every popped seed is a goal
\* node with a signature of its own; more seeds were popped than the pool
\* holds, none was cut by the threshold (it is zero), and the pool is full: a
\* goal step took the pool to top_n + 1 plans and back.
C22_Witness ==
  /\ pc = "check"
  /\ Unfiltered
  /\ cfg.top_n >= 1
  /\ cfg.num_countries = 1
  /\ cfg.start_city = "CAI"
  /\ cfg.end_city = NoCity
  /\ cfg.forced_cities = {}
  /\ pruning_threshold = 0
  /\ Len(found_plans) = cfg.top_n
  /\ paths_explored > cfg.top_n

\* The popped node passes every test before line 218: its path is offered to
\* the pool.
GoalHandled(node) ==
  LET count == new_countries_count(node.visited_countries)
  IN /\ ~(Truthy(pruning_threshold) /\ node.duration >= pruning_threshold)
     /\ count = target_country_count
     /\ ~ForcedPruned(flights_by_departure, node)
     /\ cfg.end_city = NoCity \/ last_flight(node).arrival_city_code = cfg.end_city
     /\ cfg.forced_cities \subseteq node.visited_cities
     /\ path_valid(node.path)

\* C23: in the step that offers a plan to the pool: if the pool holds a plan of
\* the same signature whose total duration is not larger, the pool is
\* unchanged; otherwise the new plan takes the place of the plans of its
\* signature, and if that makes more than top_n plans, the pool is cut by one
\* plan whose total duration is the largest; a step that offers nothing leaves
\* the pool alone.
C23_OfferToPool ==
  [][ (pc = "body" /\ pc' # "body") =>
        LET node == HeapTop(priority_queue)
            new == [sig |-> path_signature(node.path), flights |-> node.path,
                    total_duration |-> node.duration]
            same == {p \in Pool : p.sig = new.sig}
            stored == (Pool \ same) \cup {new}
        IN IF ~GoalHandled(node) THEN found_plans' = found_plans
           ELSE IF \E p \in same : p.total_duration <= new.total_duration
           THEN found_plans' = found_plans
           ELSE IF Cardinality(stored) > cfg.top_n
           THEN \E worst \in stored :
                   /\ \A p \in stored : p.total_duration <= worst.total_duration
                   /\ Range(found_plans') = stored \ {worst}
           ELSE Range(found_plans') = stored
    ]_vars

\* C23 witness: free start, goal 2, every flight of the universe joins two
\* known countries, so every flight was seeded, popped and offered; the pool
\* was never full, and holds fewer plans than were offered: a plan was
\* discarded for a plan of its signature that was not longer.
C23_Witness ==
  /\ pc = "check"
  /\ Unfiltered
  /\ cfg.start_city = NoCity
  /\ cfg.end_city = NoCity
  /\ cfg.forced_cities = {}
  /\ cfg.num_countries = 2
  /\ cfg.cities_choice = AllCodes
  /\ \A i \in 1..Len(cfg.base_flights) :
        LET f == Flights[cfg.base_flights[i]]
        IN /\ get_city_by_code(f.arrival_city_code) # NoCity
           /\ get_city_by_code(f.arrival_city_code) # get_city_by_code(f.departure_city_code)
  /\ paths_explored = Len(cfg.base_flights)
  /\ pruning_threshold = None
  /\ Len(found_plans) < paths_explored

\* C24 as claimed: at every iteration boundary the pruning threshold is set
\* exactly when the pool has held top_n plans (a pool of top_n plans stays
\* one); a set threshold goes with a pool of exactly top_n plans and equals the
\* largest total duration in it; a set threshold stays set and never increases.
C24_Original ==
  /\ [](pc = "check" =>
          /\ pruning_threshold # None <=> Len(found_plans) = cfg.top_n
          /\ pruning_threshold # None => pruning_threshold = WorstDuration(found_plans))
  /\ [][ pc = "body" =>
           /\ Len(found_plans) = cfg.top_n => Len(found_plans') = cfg.top_n
           /\ pruning_threshold # None =>
                 /\ pruning_threshold' # None
                 /\ pruning_threshold' <= pruning_threshold ]_vars

\* C24: for top_n >= 1, at every iteration boundary the pruning threshold is
\* set exactly when the pool has held top_n plans (a pool of top_n plans stays
\* one); a set threshold goes with a pool of exactly top_n plans and equals the
\* largest total duration in it; a set threshold stays set and never
\* increases.  For top_n = 0 the threshold is never set.
C24_Threshold ==
  /\ [](cfg.top_n < 1 => pruning_threshold = None)
  /\ [](pc = "check" /\ cfg.top_n >= 1 =>
          /\ pruning_threshold # None <=> Len(found_plans) = cfg.top_n
          /\ pruning_threshold # None => pruning_threshold = WorstDuration(found_plans))
  /\ [][ pc = "body" /\ cfg.top_n >= 1 =>
           /\ Len(found_plans) = cfg.top_n => Len(found_plans') = cfg.top_n
           /\ pruning_threshold # None =>
                 /\ pruning_threshold' # None
                 /\ pruning_threshold' <= pruning_threshold ]_vars

\* C24 witness: the pool filled up with plans of different durations while
\* nodes are still waiting; the threshold is the larger duration.
C24_Witness ==
  /\ pc = "check"
  /\ cfg.top_n = MaxTopN
  /\ Len(found_plans) = cfg.top_n
  /\ \E i, j \in 1..Len(found_plans) :
        found_plans[i].total_duration < found_plans[j].total_duration
  /\ pruning_threshold = WorstDuration(found_plans)
  /\ priority_queue # {}

\* C25: in every step that pops a node while the pool holds top_n plans: a
\* node whose cost is not below the worst total duration of the pool is
\* dropped without goal handling and without expansion, and no node of such a
\* cost enters the frontier, whatever the worst duration is, zero included.
C25_ThresholdCuts ==
  [][ (pc = "body" /\ pc' # "body" /\ found_plans # <<>>
       /\ Len(found_plans) = cfg.top_n) =>
        LET node == HeapTop(priority_queue)
            worst == WorstDuration(found_plans)
        IN /\ node.duration >= worst =>
                 /\ ~GoalHandled(node)
                 /\ found_plans' = found_plans
                 /\ priority_queue' = priority_queue \ {node}
           /\ \A pushed \in priority_queue' \ priority_queue : pushed.duration < worst
    ]_vars

\* ------------------------------------------ forced-city pruning (C26, C27)
\* Lines 235-309 without the threshold test: flight id may extend the node
\* when the forced-city rule of lines 311-322 is left aside.
ExpandsTo(node, id) ==
  LET f == Flights[id]
      count == new_countries_count(Extend(node, id, 0).visited_countries)
  IN /\ f.departure_city_code = last_flight(node).arrival_city_code
     /\ ~EndCityTooEarly(node, f)
     /\ LayoverOk(node, f)
     /\ get_city_by_code(f.arrival_city_code) # NoCity
     /\ CountryOk(node, f)
     /\ count > target_country_count =>
          (cfg.end_city # NoCity /\ f.arrival_city_code = cfg.end_city)

\* Lines 190-211: the node passes the goal test and its checks.
GoalNode(node) ==
  /\ new_countries_count(node.visited_countries) = target_country_count
  /\ cfg.end_city = NoCity \/ last_flight(node).arrival_city_code = cfg.end_city
  /\ cfg.forced_cities \subseteq node.visited_cities
  /\ path_valid(node.path)

\* The paths that extend the node's path and pass the goal test, when the loop
\* runs without any forced-city pruning and without the threshold: a node
\* over the goal count is dropped (line 136), a node at the goal is not
\* expanded (lines 190-233).
RECURSIVE GoalExtensions(_, _)
GoalExtensions(index, node) ==
  LET count == new_countries_count(node.visited_countries)
      at_goal == /\ count >= target_country_count
                 /\ cfg.end_city = NoCity \/ last_flight(node).arrival_city_code = cfg.end_city
      next == {id \in Range(FlightsFrom(index, last_flight(node).arrival_city_code)) :
                 ExpandsTo(node, id)}
  IN IF count > target_country_count THEN {}
     ELSE IF at_goal THEN (IF GoalNode(node) THEN {node.path} ELSE {})
     ELSE UNION {GoalExtensions(index, Extend(node, id, 0)) : id \in next}

\* Lines 146-153: a count rule discards the node at pop.
CountPruned(node) ==
  LET count == new_countries_count(node.visited_countries)
      remaining == forced_remaining(node.visited_cities)
  IN /\ cfg.forced_cities # {}
     /\ \/ count >= target_country_count /\ remaining > 0
        \/ remaining > 0 /\ target_country_count - count < remaining

\* Lines 131-136: the popped node comes to the forced-city rules.
ComesToForcedRules(node) ==
  /\ ~(Truthy(pruning_threshold) /\ node.duration >= pruning_threshold)
  /\ new_countries_count(node.visited_countries) <= target_country_count

\* C26: the count rules of the forced-city pruning discard only nodes without
\* an extension that passes the goal test: a node that a count rule discards
\* at pop, and an extension that the count rule before the push turns down,
\* has no goal extension in the search without forced-city pruning.
C26_CountRulesSound ==
  [][ (pc = "body" /\ pc' # "body" /\ ComesToForcedRules(HeapTop(priority_queue))) =>
        LET node == HeapTop(priority_queue)
            index == flights_by_departure
        IN /\ CountPruned(node) => GoalExtensions(index, node) = {}
           /\ ~ForcedPruned(index, node) =>
                \A id \in Range(FlightsFrom(index, last_flight(node).arrival_city_code)) :
                   (ExpandsTo(node, id) /\ CountPruned(Extend(node, id, 0)))
                      => GoalExtensions(index, Extend(node, id, 0)) = {}
    ]_vars

\* The paths that pass the goal test when the loop runs from the seeds without
\* forced-city pruning and without the threshold.
GoalPaths ==
  UNION {GoalExtensions(flights_by_departure, seed) : seed \in SeedQueue(flights_by_departure)}

\* C27: the reachability rule of the forced-city pruning discards only nodes
\* without an extension that passes the goal test; and when some itinerary
\* passes every test of the loop, the search that ran to the end returns a
\* non-empty list whose first plan has the least total duration of them.
C27_ReachabilitySound ==
  /\ [][ (/\ pc = "body" /\ pc' # "body"
          /\ ComesToForcedRules(HeapTop(priority_queue))
          /\ ~CountPruned(HeapTop(priority_queue))
          /\ ForcedPruned(flights_by_departure, HeapTop(priority_queue)))
         => GoalExtensions(flights_by_departure, HeapTop(priority_queue)) = {} ]_vars
  /\ []((pc = "done" /\ ~stop_event /\ cfg.top_n >= 1 /\ PreFilterRan) =>
          LET paths == GoalPaths
          IN paths # {} =>
               /\ result # <<>>
               /\ \A p \in paths : result[1].total_duration <= total_duration(p))

\* The candidate start cities, and the flights that the seeding is to take:
\* the eligible flights that leave a candidate start city of a known country
\* for a known city of another country.
CandidateStarts ==
  IF cfg.start_city # NoCity THEN {cfg.start_city} ELSE Range(cfg.cities_choice)

SeedPairs ==
  {id \in Eligible :
     /\ Flights[id].departure_city_code \in CandidateStarts
     /\ get_city_by_code(Flights[id].departure_city_code) # NoCity
     /\ get_city_by_code(Flights[id].arrival_city_code) # NoCity
     /\ get_city_by_code(Flights[id].arrival_city_code)
          # get_city_by_code(Flights[id].departure_city_code)}

\* The loop has not popped a node yet: the frontier is what the seeding made.
JustSeeded == pc = "check" /\ paths_explored = 0

\* C28: right after seeding the frontier holds exactly one one-leg node for
\* every eligible flight that leaves a candidate start city for a known city
\* of another country, with visited countries {start country, arrival
\* country}, visited cities {start, arrival} and the flight's duration as
\* cost, and nothing else.
C28_Seeding ==
  JustSeeded =>
    LET pairs == SeedPairs
    IN /\ Cardinality(priority_queue) = Cardinality(pairs)
       /\ \A node \in priority_queue :
             /\ Len(node.path) = 1
             /\ node.path[1] \in pairs
             /\ LET f == Flights[node.path[1]]
                IN /\ node.duration = f.duration
                   /\ node.visited_countries = {get_city_by_code(f.departure_city_code),
                                                get_city_by_code(f.arrival_city_code)}
                   /\ node.visited_cities = {f.departure_city_code, f.arrival_city_code}
       /\ \A id \in pairs : \E node \in priority_queue : node.path = <<id>>

\* C28 witness: a free start seeded flights from two cities and left out an
\* eligible flight to an unknown city.
C28_Witness ==
  /\ JustSeeded
  /\ cfg.start_city = NoCity
  /\ \E a, b \in priority_queue :
        Flights[a.path[1]].departure_city_code # Flights[b.path[1]].departure_city_code
  /\ \E id \in Eligible : get_city_by_code(Flights[id].arrival_city_code) = NoCity

\* C29: with a fixed end city, no leg of a returned plan other than the last
\* one arrives at the end city.
C29_EndCityOnlyLast ==
  cfg.end_city # NoCity =>
    \A plan \in Returned :
       \A i \in 1..(Len(plan.flights) - 1) :
          Leg(plan, i).arrival_city_code # cfg.end_city

\* C30: the last leg of a returned plan arrives in the country of the plan's
\* first departure city only when start_city and end_city are fixed to the
\* same city.
C30_NoAccidentalRoundTrip ==
  \A plan \in Returned :
     get_city_by_code(Leg(plan, Len(plan.flights)).arrival_city_code)
         = get_city_by_code(PlanStartCity(plan))
       => (cfg.start_city # NoCity /\ cfg.start_city = cfg.end_city)

\* The countries a path has visited before its leg i: the country of its first
\* departure city and the countries of the arrivals of the legs before i.
CountriesBefore(path, i) ==
  {get_city_by_code(Flights[path[1]].departure_city_code)}
    \cup {get_city_by_code(Flights[path[j]].arrival_city_code) : j \in 1..(i - 1)}

\* C31: in every node that expansion pushed, every leg arrives in a country
\* not visited before that leg, except that the last leg may arrive in a
\* visited country when it lands on the fixed end city and the new-country
\* count had reached the goal before it.
C31_NewCountryPerLeg ==
  \A node \in priority_queue :
     Len(node.path) >= 2 =>
       \A i \in 1..Len(node.path) :
          LET before == CountriesBefore(node.path, i)
              f == Flights[node.path[i]]
          IN \/ get_city_by_code(f.arrival_city_code) \notin before
             \/ /\ i = Len(node.path)
                /\ cfg.end_city # NoCity
                /\ f.arrival_city_code = cfg.end_city
                /\ new_countries_count(before) >= target_country_count

\* C31 witness: the frontier holds a node of three legs whose last leg returns
\* to a country visited before it.
C31_Witness ==
  \E node \in priority_queue :
     /\ Len(node.path) >= 3
     /\ get_city_by_code(last_flight(node).arrival_city_code)
           \in CountriesBefore(node.path, Len(node.path))

\* The sum of the durations of the legs of a path.
RECURSIVE LegDurations(_)
LegDurations(path) ==
  IF path = <<>> THEN 0
  ELSE LegDurations(SubSeq(path, 1, Len(path) - 1)) + Flights[Last(path)].duration

\* C32: the cost of every frontier node is the sum of the durations of its
\* legs; the total duration of every plan of the pool and of the result is the
\* sum of the durations of its legs; and a plan that enters the pool has the
\* path and the cost of the node popped in that step.
C32_CostIsFlightTime ==
  /\ [](/\ \A node \in priority_queue : node.duration = LegDurations(node.path)
        /\ \A plan \in Pool \cup Range(result) :
              plan.total_duration = LegDurations(plan.flights))
  /\ [][ \A plan \in Range(found_plans') \ Pool :
            /\ pc = "body"
            /\ plan.flights = HeapTop(priority_queue).path
            /\ plan.total_duration = HeapTop(priority_queue).duration ]_vars

\* C32 witness: a returned plan of two legs or more with a layover, so that
\* its total duration is less than the time from first departure to last
\* arrival.
C32_Witness ==
  /\ pc = "done"
  /\ \E plan \in Range(result) :
        /\ Len(plan.flights) >= 2
        /\ plan.total_duration = LegDurations(plan.flights)
        /\ plan.total_duration
             < Leg(plan, Len(plan.flights)).arrival_datetime - Leg(plan, 1).departure_datetime

\* C33: once stop_event is set, whenever the other thread set it, the search
\* counts no further iteration and pops a node only to finish the iteration it
\* is in; at the top of the loop its only step is the return; and it does
\* return (or raise): no step of the search waits for the event, and setting
\* the event waits for no step of the search.
C33_StopsWithinOnePop ==
  /\ [][ stop_event =>
           /\ paths_explored' = paths_explored
           /\ priority_queue \ priority_queue' # {} =>
                 (pc = "body" /\ pc' \in {"check", "error"})
           /\ pc = "check" => pc' = "done" ]_vars
  /\ [][ (~stop_event /\ pc \in {"start", "check", "body"}) => ENABLED SetStop ]_vars
  /\ (stop_event ~> pc \in {"done", "error"})

\* C33 witness: the event was set while an iteration was under way, with more
\* than one node on the frontier: the node of this iteration is still popped.
C33_Witness ==
  /\ pc = "body"
  /\ stop_event
  /\ paths_explored >= 2
  /\ Cardinality(priority_queue) >= 2

\* C34: the search that is not cancelled terminates: no frontier path has
\* more than num_countries + 1 legs; an iteration takes its node off the
\* frontier and pushes only paths one leg longer than it; and the loop ends
\* with an empty frontier.
C34_Terminates ==
  /\ [](\A node \in priority_queue : Len(node.path) <= cfg.num_countries + 1)
  /\ [][ (pc = "body" /\ pc' # "body") =>
           /\ HeapTop(priority_queue) \notin priority_queue'
           /\ \A pushed \in priority_queue' \ priority_queue :
                 Len(pushed.path) = Len(HeapTop(priority_queue).path) + 1 ]_vars
  /\ ([]~stop_event => <>(pc = "done" /\ priority_queue = {}))

\* Every leg of the universe takes time.
PositiveDurations ==
  \A i \in 1..Len(cfg.base_flights) : Flights[cfg.base_flights[i]].duration > 0

\* C35 as claimed: when all leg durations are positive, no plan of the pool is
\* longer than a node still on the frontier and an iteration pushes only
\* nodes that cost more than the node it popped (nodes are popped, and plans
\* offered, in non-decreasing order); a plan of the pool stays in the pool;
\* and once the pool holds top_n plans, every popped node is discarded and the
\* pool does not change.
C35_Original ==
  /\ [](PositiveDurations =>
          \A plan \in Pool : \A node \in priority_queue :
             plan.total_duration <= node.duration)
  /\ [][ PositiveDurations =>
           /\ Pool \subseteq Range(found_plans')
           /\ (pc = "body" /\ pc' # "body") =>
                 /\ \A pushed \in priority_queue' \ priority_queue :
                       pushed.duration > HeapTop(priority_queue).duration
                 /\ Len(found_plans) = cfg.top_n =>
                       /\ found_plans' = found_plans
                       /\ priority_queue' = priority_queue \ {HeapTop(priority_queue)} ]_vars

\* C35: the same for top_n >= 1; for top_n = 0 the pool stays empty but popped
\* nodes are handled, not discarded.
C35_MonotoneOffers ==
  /\ [](PositiveDurations =>
          \A plan \in Pool : \A node \in priority_queue :
             plan.total_duration <= node.duration)
  /\ [][ PositiveDurations =>
           /\ Pool \subseteq Range(found_plans')
           /\ (pc = "body" /\ pc' # "body") =>
                 /\ \A pushed \in priority_queue' \ priority_queue :
                       pushed.duration > HeapTop(priority_queue).duration
                 /\ Len(found_plans) = cfg.top_n =>
                       /\ found_plans' = found_plans
                       /\ cfg.top_n >= 1 =>
                            priority_queue' = priority_queue \ {HeapTop(priority_queue)} ]_vars

\* C35 witness: all legs take time, the pool is full, and the node of the
\* iteration under way would pass the goal test: it is discarded.
C35_Witness ==
  /\ pc = "body"
  /\ PositiveDurations
  /\ cfg.top_n >= 1
  /\ Len(found_plans) = cfg.top_n
  /\ GoalNode(HeapTop(priority_queue))

\* The list the search returns when it is never cancelled, and whether it
\* returns at all (with top_n = 0 it may raise instead).
UncancelledRun == RunToEnd(flights_by_departure, SeedState(flights_by_departure), TRUE)

IsPrefixOf(short, long) ==
  /\ Len(short) <= Len(long)
  /\ \A i \in 1..Len(short) : short[i] = long[i]

\* C36: when all leg durations are positive, the list returned by a search
\* that was cancelled at the top of an iteration is a prefix of the list the
\* same search returns when it is not cancelled.
C36_CancelledIsPrefix ==
  (pc = "done" /\ stop_event /\ PreFilterRan /\ PositiveDurations) =>
     LET full == UncancelledRun
     IN ~full.error => IsPrefixOf(result, FinalResult(full.found))

\* C36 witness: a search cancelled with nodes on the frontier returned some
\* plans, fewer than the search that is not cancelled; two of the plans of
\* the latter have the same duration.
C36_Witness ==
  /\ pc = "done"
  /\ stop_event
  /\ PreFilterRan
  /\ PositiveDurations
  /\ priority_queue # {}
  /\ result # <<>>
  /\ LET full == UncancelledRun
     IN /\ ~full.error
        /\ Len(result) < Len(FinalResult(full.found))
        /\ \E i, j \in 1..Len(full.found) :
              i # j /\ full.found[i].total_duration = full.found[j].total_duration

\* C37: with no fixed start and num_countries = 1, every node that is ever on
\* the frontier is a seed that counts two countries, over the goal: nothing is
\* pushed by expansion, no plan is accepted, nothing raises, and the result is
\* empty, whether or not an end city is fixed.
C37_FreeStartOneCountry ==
  (cfg.start_city = NoCity /\ cfg.num_countries = 1) =>
     /\ \A node \in priority_queue :
           /\ Len(node.path) = 1
           /\ new_countries_count(node.visited_countries) = 2
     /\ found_plans = <<>>
     /\ result = <<>>
     /\ pc # "error"

\* C37 witness: a free start with goal 1 and a fixed end city; two seeds or
\* more were popped, one of them a flight into the end city, and the search
\* ran to the end with nothing to return.
C37_Witness ==
  /\ pc = "done"
  /\ ~stop_event
  /\ cfg.start_city = NoCity
  /\ cfg.num_countries = 1
  /\ cfg.end_city # NoCity
  /\ paths_explored >= 2
  /\ \E id \in Range(SeedOrder(flights_by_departure, initial_cities)) :
        Flights[id].arrival_city_code = cfg.end_city
  /\ result = <<>>

====
